---- MODULE Spec2Model ----
(***************************************************************************)
(* Paper-trading ledgers of the Mr. Teals dashboard.                       *)
(*                                                                         *)
(* The repository holds four independent scripts; a page loads one of      *)
(* them.  The variable `variant` says which one, and every action belongs  *)
(* to exactly one script:                                                  *)
(*   "part_002"  src/unnamed/part_002  (state.cash / executeTrade)         *)
(*   "part_001"  src/unnamed/part_001  (localCash / handleManualTrade)     *)
(*   "app6"      src/app.js:490-1116   (localCash / manualTradeForm)       *)
(*   "part_000"  src/unnamed/part_000  (simCash / simulateStep)            *)
(*                                                                         *)
(* Numbers.  JavaScript numbers are modelled exactly: integers on a grid   *)
(* and rationals <<n, d>> where the code divides.  In part_002 the grid is *)
(* chosen so that the two tolerances of the code are one grid step:        *)
(*   one unit of cash     = 1e-9  USD   (EpsCash, part_002:171)            *)
(*   one unit of quantity = 1e-12 coin  (EpsQty,  part_002:175,198)        *)
(*   one unit of price    = 1000  USD per coin                             *)
(* so that price * quantity is a number of cash units.  part_001 and       *)
(* app.js compare without a tolerance, so any grid fits them.              *)
(***************************************************************************)
EXTENDS Integers, Sequences, FiniteSets, TLC

VARIABLES
    variant,        \* which script the page runs
    state,          \* part_002: state = {cash, positions, trades, positionsMeta, symbols}
    stored,         \* part_002: the record under localStorage[LS_KEY]
    prices,         \* part_002: prices Map, symbol -> price or NoPrice
    localCash,      \* part_001 / app6
    localPositions, \* part_001 / app6: symbol -> quantity
    localTrades,    \* part_001 / app6: executed trades, oldest first
    localPrices,    \* part_001 / app6: symbol -> last known price
    pending,        \* part_001 / app6: submit handlers suspended at an await
    simCash,        \* part_000
    simPositions,   \* part_000: symbol -> {qty, avgCost}
    simRealizedPnl, \* part_000
    simWatchlist,   \* part_000: symbol -> price
    simTradeLog,    \* part_000: rendered log rows
    simReady,       \* part_000: initSimulation has run (the sim* globals exist)
    simPending,     \* part_000: simulateStep calls suspended at the price fetch
    simFills,       \* part_000: history of executed fills (exact values)
    equityHistory,  \* part_002: equity points {t, v}, oldest first
    priceHistory,   \* part_001: equity points {t, v}, oldest first
    simEquityHistory, \* part_000: equity points, oldest first
    currentRange,   \* part_002 / part_001: the selected chart range
    chartData,      \* part_002 / part_001: the points the chart was last given
    updateTimer,    \* part_000: the update interval is set
    strategyRunning, \* part_000
    strategyInterval, \* part_000: the handle is not null
    strategyTimers, \* part_000: strategy intervals that are set and not cleared
    strategyState,  \* part_000: {symbol, history, isLong} in key order
    botPositions,   \* part_000: symbol -> quantity
    controlPending, \* part_000: sendControl calls awaiting their POST
    startPending,   \* part_000: startStrategy calls awaiting the watchlist
    resetPending,   \* part_000: resetAccount calls awaiting the backend
    tickPending,    \* part_000: strategy ticks awaiting prices and snapshot
    tradePending,   \* part_000: strategy orders awaiting their answer
    lastCommand     \* part_000: the command of the latest control click, "none"
                    \* at the start and once a control request has thrown

vars == <<variant, state, stored, prices,
          localCash, localPositions, localTrades, localPrices, pending,
          simCash, simPositions, simRealizedPnl, simWatchlist, simTradeLog,
          simReady, simPending, simFills,
          equityHistory, priceHistory, simEquityHistory, currentRange, chartData,
          updateTimer, strategyRunning, strategyInterval, strategyTimers,
          strategyState, botPositions, controlPending, startPending,
          resetPending, tickPending, tradePending, lastCommand>>

p2vars == <<state, stored, prices, equityHistory>>
localvars == <<localCash, localPositions, localTrades, localPrices, pending, priceHistory>>
botvars == <<updateTimer, strategyRunning, strategyInterval, strategyTimers,
             strategyState, botPositions, controlPending, startPending,
             resetPending, tickPending, tradePending, lastCommand>>
localsimvars == <<simCash, simPositions, simRealizedPnl, simWatchlist, simTradeLog,
                  simReady, simPending, simFills, simEquityHistory>>
simvars == <<localsimvars, botvars>>
chartvars == <<currentRange, chartData>>

-----------------------------------------------------------------------------
(* Bounds *)

MaxCash == 4
MaxTrades == 2
MaxPending == 1
\* id lookups in flight at a time
MaxLookups == 2
\* part_000: control requests, startStrategy calls, resets, strategy ticks and
\* strategy orders in flight at a time, and strategy intervals set at a time
MaxControl == 2
MaxStarts == 1
MaxResets == 1
MaxTicks == 2
MaxOrders == 2
MaxTimers == 2
\* the quantity the strategy holds of a symbol
MaxBot == 1
\* the windows of the two moving averages (3 and 6 in the source)
ShortWindow == 1
LongWindow == 3
MaxInflight == 2
MaxSimPending == 2
MaxSimTrades == 3
\* part_002: points of the last week that an event recording a new one may find
MaxFresh == 0
\* part_001: the length priceHistory is cut at (5000 in the source)
PriceHistoryCap == 2
\* part_000: the length simEquityHistory is cut at (60 in the source)
SimHistoryCap == 2
\* points of a series the chart is asked about
MaxSeries == 2

\* the two IEEE 754 values that Number() and parseFloat() return besides the
\* finite numbers; cash that has become Infinity is beyond MaxCash, so no
\* further order or deposit is followed from it
Infinity == 1000000
NaN == -1000000
isNaN(x) == x = NaN

\* a > b and a <= b on numbers: every comparison with NaN is false
Greater(a, b) == ~isNaN(a) /\ ~isNaN(b) /\ a > b
AtMost(a, b) == ~isNaN(a) /\ ~isNaN(b) /\ a <= b

\* a + b on numbers (Infinity is never added to -Infinity here)
Plus(a, b) == IF isNaN(a) \/ isNaN(b) THEN NaN
              ELSE IF a = Infinity \/ b = Infinity THEN Infinity
              ELSE a + b

\* values the inputs are drawn from
Quotes == {0, 1, 2}
QuotesOf == [s \in {"BTC/USD", "ETH/USD"} |-> IF s = "BTC/USD" THEN {1, 2} ELSE {0, 1}]
Quantities == {0, 1, 2, 3}
Deposits == {-1, 0, 1, 2, NaN, Infinity}
SnapshotCash == {0, 2}
Balances == {2, 4}
Percents == {0, 50, 100}
\* days between two events: more than the longest chart window
Delays == {366}
\* ages, in days, of the points of a series the chart is asked about: on and
\* next to the edge of each window
SeriesAges == {0, 1, 2, 7, 8, 30, 31, 365, 366}

-----------------------------------------------------------------------------
(* Program constants *)

EpsCash == 1
EpsQty == 1

Variants == {"part_002", "part_001", "app6", "part_000"}
DefaultSymbols == <<"BTC/USD", "ETH/USD">>
Symbols == {"BTC/USD", "ETH/USD"}
\* tickers whose base KNOWN_IDS does not hold: their id is looked up by a fetch
Unlisted == {"PEPE/USD", "WIF/USD"}
Tickers == Symbols \cup Unlisted
Sides == {"BUY", "SELL"}
NoPrice == -1

-----------------------------------------------------------------------------
(* Exact arithmetic: a rational is <<n, d>> with d > 0 in lowest terms *)

Abs(n) == IF n < 0 THEN -n ELSE n

RECURSIVE GCD(_, _)
GCD(a, b) == IF b = 0 THEN a ELSE GCD(b, a % b)

Rat(n, d) ==
    LET s == IF d < 0 THEN -1 ELSE 1
        g == GCD(Abs(n), Abs(d))
    IN  <<(s * n) \div g, (s * d) \div g>>

RInt(n) == <<n, 1>>
RAdd(x, y) == Rat(x[1] * y[2] + y[1] * x[2], x[2] * y[2])
RSub(x, y) == Rat(x[1] * y[2] - y[1] * x[2], x[2] * y[2])
RMul(x, y) == Rat(x[1] * y[1], x[2] * y[2])
RDiv(x, y) == Rat(x[1] * y[2], x[2] * y[1])
RLess(x, y) == x[1] * y[2] < y[1] * x[2]
RZero == <<0, 1>>

-----------------------------------------------------------------------------
(* Object maps: a JavaScript object used as a dictionary *)

EmptyMap == [k \in {} |-> 0]
Put(f, k, v) == [x \in (DOMAIN f) \cup {k} |-> IF x = k THEN v ELSE f[x]]
Del(f, k) == [x \in (DOMAIN f) \ {k} |-> f[x]]
Includes(s, e) == \E i \in 1..Len(s) : s[i] = e
Filter(s, e) == SelectSeq(s, LAMBDA x : x # e)

\* what a price source can answer for the symbols in `got`
Feed(got) == {np \in [got -> Quotes] : \A s \in got : np[s] \in QuotesOf[s]}

\* part_000 divides by the price: its watchlist is fed positive prices only
SimFeed == {np \in Feed(Symbols) : \A s \in Symbols : np[s] > 0}

-----------------------------------------------------------------------------
(* Handlers suspended at an await: a bag, handler record -> how many *)

BagAdd(b, e) == IF e \in DOMAIN b THEN [b EXCEPT ![e] = @ + 1] ELSE Put(b, e, 1)
BagRemove(b, e) == IF b[e] > 1 THEN [b EXCEPT ![e] = @ - 1] ELSE Del(b, e)

RECURSIVE BagSize(_)
BagSize(b) ==
    IF DOMAIN b = {} THEN 0
    ELSE LET e == CHOOSE x \in DOMAIN b : TRUE IN b[e] + BagSize(Del(b, e))

-----------------------------------------------------------------------------
(* part_002 *)

\* a fresh state that keeps some cash
InitState_Funded == [cash |-> 1, positions |-> EmptyMap, trades |-> <<>>,
                     positionsMeta |-> EmptyMap, symbols |-> DefaultSymbols,
   cgIds |-> {}]

InitState == [cash |-> 0, positions |-> EmptyMap, trades |-> <<>>,
              positionsMeta |-> EmptyMap, symbols |-> DefaultSymbols,
   cgIds |-> {}]

\* JSON.stringify(state): a finite number is written as it is, Infinity as null,
\* which every sum and comparison of the script reads back as 0
save(st) == [st EXCEPT !.cash = IF @ = Infinity THEN 0 ELSE @]

holding(st, sym) == IF sym \in DOMAIN st.positions THEN st.positions[sym] ELSE 0

\* avgCost(sym): the entry's avg, or null; HasAvg tells the two apart
HasAvg(st, sym) == sym \in DOMAIN st.positionsMeta
avgCost(st, sym) == st.positionsMeta[sym]

getPrice(pr, sym) == IF sym \in DOMAIN pr THEN pr[sym] ELSE NoPrice

\* `!p` in JavaScript: null and 0 are both falsy
Falsy(p) == p = NoPrice \/ p = 0

canBuy(st, pr, sym, qty) ==
    LET p == getPrice(pr, sym)
        cost == p * qty
    IN  IF Falsy(p) THEN [ok |-> FALSE, reason |-> [kind |-> "Price unavailable"]]
        ELSE IF cost > st.cash + EpsCash
             THEN [ok |-> FALSE,
                   reason |-> [kind |-> "Not enough cash", need |-> cost, have |-> st.cash]]
             ELSE [ok |-> TRUE]

canSell(st, sym, qty) ==
    LET held == holding(st, sym)
    IN  IF qty > held + EpsQty
        THEN [ok |-> FALSE, reason |-> [kind |-> "Not enough holdings", have |-> held]]
        ELSE [ok |-> TRUE]

\* a record put at the end of the history, not at its head
unshift_AtEnd(arr, e) == Append(arr, e)

\* Array.prototype.unshift: the new element comes first
unshift(arr, e) == <<e>> \o arr

\* Array.prototype.push: the new element comes last
push(arr, e) == Append(arr, e)

\* a BUY that forgets what was paid before: the average is the last fill price
newAvg_LastPrice(prevAvg, prevQty, p, qty) == RInt(p)

\* `newAvg` of the BUY branch
newAvg(prevAvg, prevQty, p, qty) ==
    LET newQty == prevQty + qty
    IN  IF newQty > 0
        THEN RDiv(RAdd(RMul(prevAvg, RInt(prevQty)), RInt(p * qty)), RInt(newQty))
        ELSE RInt(p)

\* the BUY branch of executeTrade after canBuy accepted
buyUpdate(st, p, sym, qty) ==
    LET prevQty == holding(st, sym)
        prevAvg == IF HasAvg(st, sym) THEN avgCost(st, sym) ELSE RInt(p)
        newQty == prevQty + qty
    IN  [st EXCEPT !.cash = st.cash - p * qty,
                   !.positions = Put(st.positions, sym, newQty),
                   !.positionsMeta = Put(st.positionsMeta, sym,
                                         newAvg(prevAvg, prevQty, p, qty)),
                   !.trades = unshift(st.trades,
                                      [symbol |-> sym, side |-> "BUY", qty |-> qty,
                                       price |-> p, total |-> p * qty])]

\* a SELL that writes the new quantity whatever it is
positionsAfterSell_KeepZero(st, sym, newQty) == Put(st.positions, sym, newQty)

\* state.positions after a SELL that leaves newQty
positionsAfterSell(st, sym, newQty) ==
    IF newQty <= EpsQty THEN Del(st.positions, sym) ELSE Put(st.positions, sym, newQty)

\* a SELL that resets the average cost of what is left
positionsMetaAfterSell_Reset(st, sym, newQty) ==
    IF newQty <= EpsQty THEN Del(st.positionsMeta, sym) ELSE Put(st.positionsMeta, sym, RZero)

\* a SELL that never deletes the average cost
positionsMetaAfterSell_Keep(st, sym, newQty) == st.positionsMeta

\* state.positionsMeta after a SELL that leaves newQty
positionsMetaAfterSell(st, sym, newQty) ==
    IF newQty <= EpsQty THEN Del(st.positionsMeta, sym) ELSE st.positionsMeta

\* a realized P&L per unit, not times the quantity
pnl_PerUnit(p, ac, qty) == RSub(RInt(p), ac)

\* `pnl` of the SELL branch
pnl(p, ac, qty) == RMul(RSub(RInt(p), ac), RInt(qty))

\* the SELL branch of executeTrade after canSell accepted
sellUpdate(st, p, sym, qty) ==
    LET prevQty == holding(st, sym)
        ac == IF HasAvg(st, sym) THEN avgCost(st, sym) ELSE RInt(p)
        newQty == prevQty - qty
    IN  [st EXCEPT !.cash = st.cash + p * qty,
                   !.positions = positionsAfterSell(st, sym, newQty),
                   !.positionsMeta = positionsMetaAfterSell(st, sym, newQty),
                   !.trades = unshift(st.trades,
                                      [symbol |-> sym, side |-> "SELL", qty |-> qty,
                                       price |-> p, total |-> p * qty,
                                       pnl |-> pnl(p, ac, qty)])]

\* executeTrade: the state it leaves and the error it throws, if any
executeTrade(st, pr, sym, side, qty) ==
    LET p == getPrice(pr, sym)
        v == IF side = "BUY" THEN canBuy(st, pr, sym, qty) ELSE canSell(st, sym, qty)
    IN  IF Falsy(p) THEN [ok |-> FALSE, reason |-> [kind |-> "Price unavailable"], st |-> st]
        ELSE IF ~v.ok THEN [ok |-> FALSE, reason |-> v.reason, st |-> st]
        ELSE [ok |-> TRUE,
              st |-> IF side = "BUY" THEN buyUpdate(st, p, sym, qty)
                     ELSE sellUpdate(st, p, sym, qty)]

-----------------------------------------------------------------------------
(* Equity series.  A point {t, v} is kept as [age, v] with age = now - t in
   days; ages beyond the longest chart window (1Y) are all kept as Old. *)

Old == 366
Week == 7

Min(a, b) == IF a <= b THEN a ELSE b

\* the series after d more days
Elapse(h, d) == [i \in DOMAIN h |-> [h[i] EXCEPT !.age = Min(@ + d, Old)]]

\* a position counted by its quantity alone
positionValue_Quantity(positions, pr, sym) == positions[sym]

\* part_002 computePositionsValue, `p? p*qty:0`: what one position adds to the sum
positionValue(positions, pr, sym) ==
    LET p == getPrice(pr, sym)
    IN  IF Falsy(p) THEN 0 ELSE p * positions[sym]

\* part_002 computePositionsValue, the reduce
RECURSIVE SumValue(_, _, _)
SumValue(positions, pr, syms) ==
    IF syms = {} THEN 0
    ELSE LET sym == CHOOSE x \in syms : TRUE
         IN  positionValue(positions, pr, sym) + SumValue(positions, pr, syms \ {sym})

computePositionsValue(st, pr) == SumValue(st.positions, pr, DOMAIN st.positions)

\* an eviction that drops one point at most
evict_Once(h) == IF h # <<>> /\ h[1].age > Week THEN Tail(h) ELSE h

\* recordEquityPoint, the while loop: points older than 7 days leave from the front
RECURSIVE evict(_)
evict(h) == IF h # <<>> /\ h[1].age > Week THEN evict(Tail(h)) ELSE h

\* how many points are a week old at most
Fresh(h) == Len(SelectSeq(h, LAMBDA pt : pt.age <= Week))

\* recordEquityPoint
recordEquityPoint(h, st, pr) ==
    evict(Append(h, [age |-> 0, v |-> Plus(st.cash, computePositionsValue(st, pr))]))

\* chart ranges and their windows in days (renderChart `windows`)
Ranges == {"LIVE", "1D", "1W", "1M", "1Y", "ALL"}
windows == [r \in Ranges |->
               CASE r = "1D" -> 1
                 [] r = "1W" -> 7
                 [] r = "1M" -> 30
                 [] r = "1Y" -> 365
                 [] OTHER -> Infinity]

\* a window that leaves out the point lying exactly on its edge
InWindow_Strict(age, win) == age < win

\* (now - p.t) <= win, and p.t.getTime() >= now - win
InWindow(age, win) == age <= win

\* renderChart: the slice handed to the chart
renderChart(h, range) ==
    LET win == windows[range]
    IN  IF win = Infinity THEN h
        ELSE SelectSeq(h, LAMBDA pt : InWindow(pt.age, win))

\* `if(currentRange==="LIVE") renderChart()`
renderIfLive(h, range, shown) == IF range = "LIVE" THEN renderChart(h, range) ELSE shown

\* tradeForm submit handler
TradeSubmit ==
    /\ variant = "part_002"
    /\ Len(state.trades) < MaxTrades
    /\ \E sym \in Symbols, side \in Sides, qty \in Quantities :
          IF ~Includes(state.symbols, sym) \/ ~(qty > 0)
          THEN UNCHANGED <<state, stored, equityHistory, chartData>>
          ELSE LET r == executeTrade(state, prices, sym, side, qty)
                   \* a SELL records a point in executeTrade and one more here
                   once == recordEquityPoint(equityHistory, r.st, prices)
                   h == IF side = "SELL" THEN recordEquityPoint(once, r.st, prices)
                        ELSE once
               IN  IF r.ok
                   THEN /\ r.st.cash <= MaxCash
                        /\ Fresh(equityHistory) <= MaxFresh
                        /\ state' = r.st
                        /\ stored' = save(r.st)
                        /\ equityHistory' = h
                        /\ chartData' = renderIfLive(h, currentRange, chartData)
                   ELSE UNCHANGED <<state, stored, equityHistory, chartData>>
    /\ UNCHANGED <<variant, prices, currentRange>>
    /\ UNCHANGED localvars
    /\ UNCHANGED simvars

\* addApply click handler (wirePresets): amt is the preset or the custom amount
AddApply ==
    /\ variant = "part_002"
    /\ \E amt \in Deposits :
          IF Greater(amt, 0)
          THEN /\ Plus(state.cash, amt) <= MaxCash \/ amt = Infinity
               /\ state.cash # Infinity
               /\ state' = [state EXCEPT !.cash = Plus(state.cash, amt)]
               /\ stored' = save(state')
               /\ equityHistory' = recordEquityPoint(equityHistory, state', prices)
               /\ Fresh(equityHistory) <= MaxFresh
               /\ chartData' = renderChart(equityHistory', currentRange)
          ELSE UNCHANGED <<state, stored, equityHistory, chartData>>
    /\ UNCHANGED <<variant, prices, currentRange>>
    /\ UNCHANGED localvars
    /\ UNCHANGED simvars

\* fetchPrices: every watched symbol gets a fresh price or keeps its entry, marked stale
FetchPrices ==
    /\ variant = "part_002"
    /\ \E got \in SUBSET {s \in Symbols : Includes(state.symbols, s)} :
       \E np \in Feed(got) :
          prices' = [s \in (DOMAIN prices) \cup {x \in Symbols : Includes(state.symbols, x)} |->
                        IF s \in got THEN np[s] ELSE getPrice(prices, s)]
    /\ equityHistory' = recordEquityPoint(equityHistory, state, prices')
    /\ Fresh(equityHistory) <= MaxFresh
    /\ chartData' = renderIfLive(equityHistory', currentRange, chartData)
    /\ UNCHANGED <<variant, state, stored, currentRange>>
    /\ UNCHANGED localvars
    /\ UNCHANGED simvars

\* remove-btn click handler (renderPrices)
RemoveSymbol ==
    /\ variant = "part_002"
    /\ \E sym \in Tickers :
          /\ Includes(state.symbols, sym)
          /\ state' = [state EXCEPT !.symbols = Filter(state.symbols, sym),
                                    !.positions = Del(state.positions, sym)]
          /\ stored' = save(state')
    /\ UNCHANGED <<variant, prices, equityHistory>>
    /\ UNCHANGED chartvars
    /\ UNCHANGED localvars
    /\ UNCHANGED simvars

\* resolveCGIdForSymbol answers without a fetch: the id is in state.cgIds or
\* in KNOWN_IDS (state.cgIds of the model holds the looked-up tickers only; for
\* a ticker of KNOWN_IDS the answer does not depend on it)
Resolved(st, sym) == sym \in st.cgIds \/ sym \notin Unlisted

\* addSymBtn click handler for a ticker whose id needs no fetch: the handler
\* runs from the duplicate check to the push before any other handler
AddSymbol ==
    /\ variant = "part_002"
    /\ \E sym \in Tickers :
          /\ ~Includes(state.symbols, sym)
          /\ Resolved(state, sym)
          /\ state' = [state EXCEPT !.symbols = Append(state.symbols, sym)]
          /\ stored' = save(state')
    /\ UNCHANGED <<variant, prices, equityHistory>>
    /\ UNCHANGED chartvars
    /\ UNCHANGED localvars
    /\ UNCHANGED simvars

\* addSymBtn click handler for a ticker whose id is fetched: the duplicate
\* check, then the handler is suspended at the await of the search request
AddSymbolClick ==
    /\ variant = "part_002"
    /\ \E sym \in Tickers :
          /\ ~Includes(state.symbols, sym)
          /\ ~Resolved(state, sym)
          /\ BagSize(pending) < MaxLookups
          /\ pending' = BagAdd(pending, [pc |-> "resolveCGId", symbol |-> sym])
    /\ UNCHANGED <<variant, state, stored, prices, equityHistory>>
    /\ UNCHANGED chartvars
    /\ UNCHANGED <<localCash, localPositions, localTrades, localPrices, priceHistory>>
    /\ UNCHANGED simvars

\* the search request has answered: with an id the handler records it and
\* pushes the symbol, without one (no match, or the request failed) it returns
AddSymbolResume ==
    /\ variant = "part_002"
    /\ \E h \in DOMAIN pending : \E found \in BOOLEAN :
          /\ h.pc = "resolveCGId"
          /\ pending' = BagRemove(pending, h)
          /\ state' = IF found
                      THEN [state EXCEPT !.cgIds = @ \cup {h.symbol},
                                         !.symbols = Append(@, h.symbol)]
                      ELSE state
          /\ stored' = IF found THEN save(state') ELSE stored
    /\ UNCHANGED <<variant, prices, equityHistory>>
    /\ UNCHANGED chartvars
    /\ UNCHANGED <<localCash, localPositions, localTrades, localPrices, priceHistory>>
    /\ UNCHANGED simvars

\* reset click handler
ResetClick ==
    /\ variant = "part_002"
    /\ state' = InitState
    /\ stored' = save(state')
    /\ equityHistory' = recordEquityPoint(<<>>, state', prices)
    /\ chartData' = renderChart(equityHistory', currentRange)
    /\ UNCHANGED <<variant, prices, currentRange>>
    /\ UNCHANGED localvars
    /\ UNCHANGED simvars

\* time passes between two events of part_002: every point kept, in the
\* series and on the chart, is that much older
Tick ==
    /\ variant = "part_002"
    /\ \E d \in Delays :
          /\ equityHistory' = Elapse(equityHistory, d)
          /\ chartData' = Elapse(chartData, d)
    /\ UNCHANGED <<variant, state, stored, prices, currentRange>>
    /\ UNCHANGED localvars
    /\ UNCHANGED simvars

\* a chip click that also records a point
ChipClick_Recording ==
    /\ variant = "part_002"
    /\ \E range \in Ranges :
          /\ currentRange' = range
          /\ equityHistory' = recordEquityPoint(equityHistory, state, prices)
          /\ chartData' = renderChart(equityHistory', range)
    /\ UNCHANGED <<variant, state, stored, prices>>
    /\ UNCHANGED localvars
    /\ UNCHANGED simvars

\* click on a range chip
ChipClick ==
    /\ variant = "part_002"
    /\ \E range \in Ranges :
          /\ currentRange' = range
          /\ chartData' = renderChart(equityHistory, range)
    /\ UNCHANGED <<variant, state, stored, prices, equityHistory>>
    /\ UNCHANGED localvars
    /\ UNCHANGED simvars

\* the page is loaded again: the state comes back from localStorage, every
\* watched symbol starts without a price, and boot() records the first point
Boot ==
    /\ variant = "part_002"
    /\ state' = stored
    /\ prices' = [s \in {x \in Symbols : Includes(stored.symbols, x)} |-> NoPrice]
    /\ equityHistory' = recordEquityPoint(<<>>, state', prices')
    /\ currentRange' = "LIVE"
    /\ chartData' = renderChart(equityHistory', "LIVE")
    /\ pending' = EmptyMap
    /\ UNCHANGED <<variant, stored>>
    /\ UNCHANGED <<localCash, localPositions, localTrades, localPrices, priceHistory>>
    /\ UNCHANGED simvars

-----------------------------------------------------------------------------
(* part_001 *)

SYMBOLS == Symbols

\* `Number(localPositions[sym]) || 0`
localHeld(positions, sym) == IF sym \in DOMAIN positions THEN positions[sym] ELSE 0

\* `localPrices[sym]`, undefined when the symbol has no entry
localPrice(lp, sym) == IF sym \in DOMAIN lp THEN lp[sym] ELSE NoPrice

\* handleManualTrade from `const totalCost` on: the price is known
manualTrade(cash, positions, trades, price, sym, side, qty) ==
    LET totalCost == price * qty
        held == localHeld(positions, sym)
        trade == [symbol |-> sym, side |-> side, qty |-> qty, price |-> price,
                  total |-> totalCost]
    IN  IF side = "BUY"
        THEN IF totalCost > cash
             THEN [ok |-> FALSE, cash |-> cash, positions |-> positions, trades |-> trades]
             ELSE [ok |-> TRUE, cash |-> cash - totalCost,
                   positions |-> Put(positions, sym, held + qty),
                   trades |-> push(trades, trade)]
        ELSE IF qty > held
             THEN [ok |-> FALSE, cash |-> cash, positions |-> positions, trades |-> trades]
             ELSE [ok |-> TRUE, cash |-> cash + totalCost,
                   positions |-> IF held - qty <= 0 THEN Del(positions, sym)
                                 ELSE Put(positions, sym, held - qty),
                   trades |-> push(trades, trade)]

\* part_001 computePositionsValue: `Number(localPrices[sym]) || 0` times the quantity
RECURSIVE localSumValue(_, _, _)
localSumValue(positions, lp, syms) ==
    IF syms = {} THEN 0
    ELSE LET sym == CHOOSE x \in syms : TRUE
             price == IF localPrice(lp, sym) = NoPrice THEN 0 ELSE localPrice(lp, sym)
         IN  price * positions[sym] + localSumValue(positions, lp, syms \ {sym})

localPositionsValue(positions, lp) == localSumValue(positions, lp, DOMAIN positions)

\* pushEquityPoint, up to the chart update
pushEquityPoint(h, cash, positions, lp) ==
    LET pushed == Append(h, [age |-> 0, v |-> Plus(cash, localPositionsValue(positions, lp))])
    IN  IF Len(pushed) > PriceHistoryCap THEN Tail(pushed) ELSE pushed

\* chart ranges of part_001; "live" and "ALL" have no cutoff
LocalRanges == {"live", "1D", "1W", "1M", "1Y", "ALL"}

\* updateChart: the filtered points
updateChart(h, range) ==
    CASE range = "1D" -> SelectSeq(h, LAMBDA pt : InWindow(pt.age, 1))
      [] range = "1W" -> SelectSeq(h, LAMBDA pt : InWindow(pt.age, 7))
      [] range = "1M" -> SelectSeq(h, LAMBDA pt : InWindow(pt.age, 30))
      [] range = "1Y" -> SelectSeq(h, LAMBDA pt : InWindow(pt.age, 365))
      [] OTHER -> h

\* `if (currentRange === "live") updateChart()`
updateIfLive(h, range, shown) == IF range = "live" THEN updateChart(h, range) ELSE shown

\* handleManualTrade, up to the await on fetchSinglePrice or, with a cached price, to the end
HandleManualTrade ==
    /\ variant = "part_001"
    /\ Len(localTrades) < MaxTrades
    /\ \E sym \in Symbols, side \in Sides, qty \in Quantities :
          IF sym \notin SYMBOLS \/ qty <= 0
          THEN UNCHANGED <<localCash, localPositions, localTrades, pending,
                           priceHistory, chartData>>
          ELSE IF localPrice(localPrices, sym) = NoPrice
          THEN /\ BagSize(pending) < MaxPending
               /\ pending' = BagAdd(pending, [symbol |-> sym, side |-> side, qty |-> qty])
               /\ UNCHANGED <<localCash, localPositions, localTrades, priceHistory, chartData>>
          ELSE LET r == manualTrade(localCash, localPositions, localTrades,
                                    localPrice(localPrices, sym), sym, side, qty)
               IN  /\ r.cash <= MaxCash
                   /\ localCash' = r.cash
                   /\ localPositions' = r.positions
                   /\ localTrades' = r.trades
                   /\ priceHistory' = IF r.ok
                                      THEN pushEquityPoint(priceHistory, r.cash, r.positions,
                                                           localPrices)
                                      ELSE priceHistory
                   /\ chartData' = IF r.ok
                                   THEN updateIfLive(priceHistory', currentRange, chartData)
                                   ELSE chartData
                   /\ UNCHANGED pending
    /\ UNCHANGED <<variant, localPrices, currentRange>>
    /\ UNCHANGED p2vars
    /\ UNCHANGED simvars

\* handleManualTrade resumed: fetchSinglePrice returned a price or null
ManualTradeResume ==
    /\ variant = "part_001"
    /\ Len(localTrades) < MaxTrades
    /\ \E h \in DOMAIN pending :
       \E price \in QuotesOf[h.symbol] \cup {NoPrice} :
          /\ pending' = BagRemove(pending, h)
          /\ IF price = NoPrice
             THEN UNCHANGED <<localCash, localPositions, localTrades, localPrices,
                              priceHistory, chartData>>
             ELSE LET r == manualTrade(localCash, localPositions, localTrades,
                                       price, h.symbol, h.side, h.qty)
                  IN  /\ r.cash <= MaxCash
                      /\ localPrices' = Put(localPrices, h.symbol, price)
                      /\ localCash' = r.cash
                      /\ localPositions' = r.positions
                      /\ localTrades' = r.trades
                      /\ priceHistory' = IF r.ok
                                         THEN pushEquityPoint(priceHistory, r.cash, r.positions,
                                                              localPrices')
                                         ELSE priceHistory
                      /\ chartData' = IF r.ok
                                      THEN updateIfLive(priceHistory', currentRange, chartData)
                                      ELSE chartData
    /\ UNCHANGED <<variant, currentRange>>
    /\ UNCHANGED p2vars
    /\ UNCHANGED simvars

\* handleAddBalance
HandleAddBalance ==
    /\ variant = "part_001"
    /\ \E amt \in Deposits :
          IF isNaN(amt) \/ AtMost(amt, 0)
          THEN UNCHANGED <<localCash, priceHistory, chartData>>
          ELSE /\ Plus(localCash, amt) <= MaxCash \/ amt = Infinity
               /\ localCash # Infinity
               /\ localCash' = Plus(localCash, amt)
               /\ priceHistory' = pushEquityPoint(priceHistory, localCash', localPositions,
                                                  localPrices)
               /\ chartData' = updateIfLive(priceHistory', currentRange, chartData)
    /\ UNCHANGED <<variant, localPositions, localTrades, localPrices, pending, currentRange>>
    /\ UNCHANGED p2vars
    /\ UNCHANGED simvars

\* updatePrices: fetchAllPrices returned prices for some of the symbols
UpdatePrices ==
    /\ variant = "part_001"
    /\ \E got \in SUBSET SYMBOLS :
       \E newPrices \in Feed(got) :
          /\ localPrices' = [s \in (DOMAIN localPrices) \cup got |->
                                IF s \in got THEN newPrices[s] ELSE localPrices[s]]
          /\ priceHistory' = IF got # {}
                             THEN pushEquityPoint(priceHistory, localCash, localPositions,
                                                  localPrices')
                             ELSE priceHistory
          /\ chartData' = IF got # {}
                          THEN updateIfLive(priceHistory', currentRange, chartData)
                          ELSE chartData
    /\ UNCHANGED <<variant, localCash, localPositions, localTrades, pending, currentRange>>
    /\ UNCHANGED p2vars
    /\ UNCHANGED simvars

\* handleReset
HandleReset ==
    /\ variant = "part_001"
    /\ localCash' = 0
    /\ localPositions' = EmptyMap
    /\ localTrades' = <<>>
    /\ priceHistory' = <<>>
    /\ chartData' = updateChart(priceHistory', currentRange)
    /\ UNCHANGED <<variant, localPrices, pending, currentRange>>
    /\ UNCHANGED p2vars
    /\ UNCHANGED simvars

\* handleRangeClick
HandleRangeClick ==
    /\ variant = "part_001"
    /\ \E range \in LocalRanges :
          /\ currentRange' = range
          /\ chartData' = updateChart(priceHistory, range)
    /\ UNCHANGED <<variant, localCash, localPositions, localTrades, localPrices, pending,
                   priceHistory>>
    /\ UNCHANGED p2vars
    /\ UNCHANGED simvars

\* time passes between two events of part_001: every point kept,
\* in the series and on the chart, is that much older
LocalTick ==
    /\ variant = "part_001"
    /\ \E d \in Delays :
          /\ priceHistory' = Elapse(priceHistory, d)
          /\ chartData' = Elapse(chartData, d)
    /\ UNCHANGED <<variant, localCash, localPositions, localTrades, localPrices, pending,
                   currentRange>>
    /\ UNCHANGED p2vars
    /\ UNCHANGED simvars

-----------------------------------------------------------------------------
(* app.js, second script (lines 490-1116) *)

\* the funds / holdings validation of the submit handler
validateTrade(cash, positions, cost, sym, side, qty) ==
    IF side = "BUY" THEN ~(cost > cash)
    ELSE ~(qty > localHeld(positions, sym))

\* "Record trade locally" and "Update local cash and positions"
commitTrade(cash, positions, trades, h) ==
    [cash |-> IF h.side = "BUY" THEN cash - h.cost ELSE cash + h.cost,
     positions |-> IF h.side = "BUY"
                   THEN Put(positions, h.symbol, localHeld(positions, h.symbol) + h.qty)
                   ELSE Put(positions, h.symbol, localHeld(positions, h.symbol) - h.qty),
     trades |-> push(trades, [symbol |-> h.symbol, side |-> h.side, qty |-> h.qty,
                              price |-> h.price])]

\* manualTradeForm submit handler, up to `await getPrice(symbol)`
SubmitTrade ==
    /\ variant = "app6"
    /\ \E sym \in Symbols, side \in Sides, qty \in Quantities :
          IF qty = 0 \/ qty <= 0
          THEN UNCHANGED pending
          ELSE /\ BagSize(pending) < MaxInflight
               /\ pending' = BagAdd(pending, [pc |-> "getPrice", symbol |-> sym,
                                              side |-> side, qty |-> qty])
    /\ UNCHANGED <<variant, localCash, localPositions, localTrades, localPrices>>
    /\ UNCHANGED <<priceHistory, currentRange, chartData>>
    /\ UNCHANGED p2vars
    /\ UNCHANGED simvars

\* the handler resumed with the price: cache it, validate, then `await fetch(url)`
SubmitGotPrice ==
    /\ variant = "app6"
    /\ \E h \in DOMAIN pending :
       \E price \in QuotesOf[h.symbol] \cup {NoPrice} :
          /\ h.pc = "getPrice"
          /\ IF price = NoPrice
             THEN /\ pending' = BagRemove(pending, h)
                  /\ UNCHANGED localPrices
             ELSE /\ localPrices' = Put(localPrices, h.symbol, price)
                  /\ pending' =
                        IF validateTrade(localCash, localPositions, price * h.qty,
                                         h.symbol, h.side, h.qty)
                        THEN BagAdd(BagRemove(pending, h),
                                    [pc |-> "post", symbol |-> h.symbol, side |-> h.side,
                                     qty |-> h.qty, price |-> price, cost |-> price * h.qty])
                        ELSE BagRemove(pending, h)
    /\ UNCHANGED <<variant, localCash, localPositions, localTrades>>
    /\ UNCHANGED <<priceHistory, currentRange, chartData>>
    /\ UNCHANGED p2vars
    /\ UNCHANGED simvars

\* the handler resumed after the POST (its outcome is ignored): record and update
SubmitPosted ==
    /\ variant = "app6"
    /\ Len(localTrades) < MaxTrades
    /\ \E h \in DOMAIN pending :
          /\ h.pc = "post"
          /\ LET r == commitTrade(localCash, localPositions, localTrades, h)
             IN  /\ r.cash <= MaxCash
                 /\ localCash' = r.cash
                 /\ localPositions' = r.positions
                 /\ localTrades' = r.trades
          /\ pending' = BagRemove(pending, h)
    /\ UNCHANGED <<variant, localPrices>>
    /\ UNCHANGED <<priceHistory, currentRange, chartData>>
    /\ UNCHANGED p2vars
    /\ UNCHANGED simvars

\* loadSnapshot resumed with the backend's snapshot (boot, Reset, refreshAll)
LoadSnapshot ==
    /\ variant = "app6"
    /\ \E c \in SnapshotCash : localCash' = c
    /\ UNCHANGED <<variant, localPositions, localTrades, localPrices, pending>>
    /\ UNCHANGED <<priceHistory, currentRange, chartData>>
    /\ UNCHANGED p2vars
    /\ UNCHANGED simvars

\* loadWatchlist resumed: a price for some of the symbols
LoadWatchlist ==
    /\ variant = "app6"
    /\ \E got \in SUBSET Symbols :
       \E np \in Feed(got) :
          localPrices' = [s \in (DOMAIN localPrices) \cup got |->
                             IF s \in got THEN np[s] ELSE localPrices[s]]
    /\ UNCHANGED <<variant, localCash, localPositions, localTrades, pending>>
    /\ UNCHANGED <<priceHistory, currentRange, chartData>>
    /\ UNCHANGED p2vars
    /\ UNCHANGED simvars

-----------------------------------------------------------------------------
(* part_000: the local simulation *)

\* Number.prototype.toFixed(k) of a non-negative number, as a count of 10^-k
toFixed(x, k) ==
    LET scale == IF k = 3 THEN 1000 ELSE 100
    IN  (2 * x[1] * scale + x[2]) \div (2 * x[2])

\* a SELL that books its proceeds, not its gain
realizedAfterSell_Proceeds(realized, qty, price, avg) ==
    RAdd(realized, RMul(qty, RInt(price)))

\* `simRealizedPnl += qty * (price - pos.avgCost)`
realizedAfterSell(realized, qty, price, avg) ==
    RAdd(realized, RMul(qty, RSub(RInt(price), avg)))

\* simulateStep, "Possibly execute a trade": the branch taken once symbol,
\* price, side and position size are drawn
simTrade(cash, positions, realized, log, symbol, price, side, posPct) ==
    LET qtyValue == RMul(cash, Rat(posPct, 100))
        same == [cash |-> cash, positions |-> positions, realized |-> realized, log |-> log]
    IN  IF side = "BUY" /\ RLess(RZero, qtyValue)
        THEN LET qty == RDiv(qtyValue, RInt(price))
                 spent == RMul(qty, RInt(price))
                 pos == IF symbol \in DOMAIN positions
                        THEN LET old == positions[symbol]
                                 totalCost == RAdd(RMul(old.qty, old.avgCost), spent)
                                 newQty == RAdd(old.qty, qty)
                             IN  [qty |-> newQty, avgCost |-> RDiv(totalCost, newQty)]
                        ELSE [qty |-> qty, avgCost |-> RInt(price)]
             IN  [cash |-> RSub(cash, spent),
                  positions |-> Put(positions, symbol, pos),
                  realized |-> realized,
                  log |-> Append(log, [symbol |-> symbol, side |-> "BUY",
                                       qty |-> toFixed(qty, 3),
                                       price |-> toFixed(RInt(price), 2)])]
        ELSE IF side = "SELL"
        THEN IF symbol \in DOMAIN positions /\ RLess(RZero, positions[symbol].qty)
             THEN LET pos == positions[symbol]
                      qty == pos.qty
                  IN  [cash |-> RAdd(cash, RMul(qty, RInt(price))),
                       positions |-> Del(positions, symbol),
                       realized |-> realizedAfterSell(realized, qty, price, pos.avgCost),
                       log |-> Append(log, [symbol |-> symbol, side |-> "SELL",
                                            qty |-> toFixed(qty, 3),
                                            price |-> toFixed(RInt(price), 2)])]
             ELSE same
        ELSE same

\* the fill a step executes, with the values it trades at: <<>> when it trades nothing
Fill(cash, positions, symbol, price, side, posPct) ==
    IF side = "BUY" /\ posPct > 0 /\ cash[1] > 0
    THEN <<[symbol |-> symbol, side |-> "BUY", price |-> price,
            qty |-> RDiv(RMul(cash, Rat(posPct, 100)), RInt(price))]>>
    ELSE IF side = "SELL" /\ symbol \in DOMAIN positions /\ positions[symbol].qty[1] > 0
    THEN <<[symbol |-> symbol, side |-> "SELL", price |-> price,
            qty |-> positions[symbol].qty, avgCost |-> positions[symbol].avgCost]>>
    ELSE <<>>

\* simulateStep: the price a position is valued at, the watchlist price or,
\* without one, its average cost
currentPrice(wl, sym, pos) ==
    IF sym \in DOMAIN wl /\ wl[sym] # 0 THEN RInt(wl[sym]) ELSE pos.avgCost

\* simulateStep "Update unrealized PnL and positions value"
RECURSIVE simPositionsValue(_, _, _)
simPositionsValue(positions, wl, syms) ==
    IF syms = {} THEN RZero
    ELSE LET sym == CHOOSE x \in syms : TRUE
             pos == positions[sym]
         IN  RAdd(RMul(pos.qty, currentPrice(wl, sym, pos)),
                  simPositionsValue(positions, wl, syms \ {sym}))

RECURSIVE simUnrealizedPnl(_, _, _)
simUnrealizedPnl(positions, wl, syms) ==
    IF syms = {} THEN RZero
    ELSE LET sym == CHOOSE x \in syms : TRUE
             pos == positions[sym]
         IN  RAdd(RMul(pos.qty, RSub(currentPrice(wl, sym, pos), pos.avgCost)),
                  simUnrealizedPnl(positions, wl, syms \ {sym}))

\* simulateStep: the equity point pushed, and the oldest dropped beyond the cap
simPush(h, cash, positions, wl) ==
    LET pushed == Append(h, RAdd(cash, simPositionsValue(positions, wl, DOMAIN positions)))
    IN  IF Len(pushed) > SimHistoryCap THEN Tail(pushed) ELSE pushed

\* initSimulation
InitSimulation ==
    /\ variant = "part_000"
    /\ \E initialBalance \in Balances, wl \in SimFeed :
          /\ simCash' = RInt(initialBalance)
          /\ simWatchlist' = wl
          /\ simEquityHistory' = <<RInt(initialBalance)>>
    /\ simPositions' = EmptyMap
    /\ simRealizedPnl' = RZero
    /\ simTradeLog' = <<>>
    /\ simFills' = <<>>
    /\ simReady' = TRUE
    /\ UNCHANGED <<variant, simPending>>
    /\ UNCHANGED botvars
    /\ UNCHANGED chartvars
    /\ UNCHANGED p2vars
    /\ UNCHANGED localvars

\* simulateStep called: it suspends at `await fetchLivePrices(...)`
SimulateStepCall ==
    /\ variant = "part_000"
    /\ simReady
    /\ simPending < MaxSimPending
    /\ simPending' = simPending + 1
    /\ UNCHANGED <<variant, simCash, simPositions, simRealizedPnl, simWatchlist,
                   simTradeLog, simReady, simFills, simEquityHistory>>
    /\ UNCHANGED botvars
    /\ UNCHANGED chartvars
    /\ UNCHANGED p2vars
    /\ UNCHANGED localvars

\* simulateStep resumed: new prices (live or drifted), then maybe one trade
SimulateStep ==
    /\ variant = "part_000"
    /\ simPending > 0
    /\ simPending' = simPending - 1
    /\ \E wl \in SimFeed, trade \in BOOLEAN :
          /\ simWatchlist' = wl
          /\ IF trade
             THEN \E symbol \in Symbols, side \in Sides, posPct \in Percents :
                     LET r == simTrade(simCash, simPositions, simRealizedPnl, simTradeLog,
                                       symbol, wl[symbol], side, posPct)
                         f == Fill(simCash, simPositions, symbol, wl[symbol], side, posPct)
                     IN  /\ Len(simFills) + Len(f) <= MaxSimTrades
                         /\ simCash' = r.cash
                         /\ simPositions' = r.positions
                         /\ simRealizedPnl' = r.realized
                         /\ simTradeLog' = r.log
                         /\ simFills' = simFills \o f
             ELSE UNCHANGED <<simCash, simPositions, simRealizedPnl, simTradeLog, simFills>>
    /\ simEquityHistory' = simPush(simEquityHistory, simCash', simPositions', simWatchlist')
    /\ UNCHANGED <<variant, simReady>>
    /\ UNCHANGED botvars
    /\ UNCHANGED chartvars
    /\ UNCHANGED p2vars
    /\ UNCHANGED localvars

-----------------------------------------------------------------------------
(* part_000: the control buttons and the moving-average strategy *)

Commands == {"start", "pause", "kill"}
\* what /api/watchlist answers to startStrategy
WatchlistAnswers == {<<"BTC/USD">>}
\* what /api/prices answers for a symbol, and the cash of the snapshot
StrategyQuotes == {1, 2}
StrategyCash == {0, 10}


RECURSIVE SumSeq(_)
SumSeq(q) == IF q = <<>> THEN 0 ELSE Head(q) + SumSeq(Tail(q))

\* arr.slice(-n)
LastN(q, n) == IF Len(q) <= n THEN q ELSE SubSeq(q, Len(q) - n + 1, Len(q))

\* arr.reduce((a,b) => a+b, 0) / arr.length
MovingAverage(q, n) == RDiv(RInt(SumSeq(LastN(q, n))), RInt(Len(LastN(q, n))))

\* Object.keys(strategyState)
Keys(ss) == [i \in 1..Len(ss) |-> ss[i].symbol]
HasKey(ss, sym) == \E i \in 1..Len(ss) : ss[i].symbol = sym
IndexOf(ss, sym) == CHOOSE i \in 1..Len(ss) : ss[i].symbol = sym

\* strategyState[s] = { history: [], isLong: false }
FreshState(ss, sym) ==
    LET e == [symbol |-> sym, history |-> <<>>, isLong |-> FALSE]
    IN  IF HasKey(ss, sym) THEN [ss EXCEPT ![IndexOf(ss, sym)] = e] ELSE Append(ss, e)

RECURSIVE FreshStates(_, _)
FreshStates(ss, list) ==
    IF list = <<>> THEN ss ELSE FreshStates(FreshState(ss, Head(list)), Tail(list))

botQty(bp, sym) == IF sym \in DOMAIN bp THEN bp[sym] ELSE RZero

\* if(!botPositions[s]) botPositions[s] = 0
ZeroMissing(bp, list) ==
    [s \in (DOMAIN bp) \cup {list[i] : i \in 1..Len(list)} |-> botQty(bp, s)]

\* an order whose .then closure holds a state object that strategyState no
\* longer refers to: the answer sets isLong on the dropped object
Orphan(tp, syms) ==
    LET moved(o) == IF o.symbol \in syms THEN [o EXCEPT !.stale = TRUE] ELSE o
        images == {moved(o) : o \in DOMAIN tp}
    IN  [x \in images |->
            LET from == {o \in DOMAIN tp : moved(o) = x}
                RECURSIVE Total(_)
                Total(S) == IF S = {} THEN 0
                            ELSE LET o == CHOOSE y \in S : TRUE
                                 IN  tp[o] + Total(S \ {o})
            IN  Total(from)]

\* startUpdates / stopUpdates: at most one update interval is set
startUpdates == TRUE
stopUpdates == FALSE

\* el.btnStart / btnPause / btnKill click: sendControl up to the await
SendControl ==
    /\ variant = "part_000"
    /\ BagSize(controlPending) < MaxControl
    /\ \E cmd \in Commands :
          /\ controlPending' = BagAdd(controlPending, cmd)
          /\ lastCommand' = cmd
    /\ UNCHANGED <<variant, updateTimer, strategyRunning, strategyInterval,
                   strategyTimers, strategyState, botPositions, startPending,
                   resetPending, tickPending, tradePending>>
    /\ UNCHANGED localsimvars
    /\ UNCHANGED chartvars
    /\ UNCHANGED p2vars
    /\ UNCHANGED localvars

\* sendControl after the await: the POST answered, or it threw
SendControlResume ==
    /\ variant = "part_000"
    /\ \E cmd \in DOMAIN controlPending : \E ok \in BOOLEAN :
          /\ controlPending' = BagRemove(controlPending, cmd)
          /\ lastCommand' = IF ok THEN lastCommand ELSE "none"
          /\ IF ok /\ cmd = "start"
             THEN \* startUpdates(); startStrategy() up to its await
                  /\ updateTimer' = startUpdates
                  /\ IF strategyRunning
                     THEN UNCHANGED <<strategyRunning, startPending>>
                     ELSE /\ startPending < MaxStarts
                          /\ strategyRunning' = TRUE
                          /\ startPending' = startPending + 1
                  /\ UNCHANGED <<strategyInterval, strategyTimers>>
             ELSE IF ok
             THEN \* stopUpdates(); stopStrategy()
                  /\ updateTimer' = stopUpdates
                  /\ strategyRunning' = FALSE
                  /\ strategyInterval' = FALSE
                  /\ strategyTimers' = IF strategyInterval THEN strategyTimers - 1
                                       ELSE strategyTimers
                  /\ UNCHANGED startPending
             ELSE UNCHANGED <<updateTimer, strategyRunning, strategyInterval,
                              strategyTimers, startPending>>
    /\ UNCHANGED <<variant, strategyState, botPositions, resetPending,
                   tickPending, tradePending>>
    /\ UNCHANGED localsimvars
    /\ UNCHANGED chartvars
    /\ UNCHANGED p2vars
    /\ UNCHANGED localvars

\* startStrategy after the await of the watchlist: the states of the listed
\* symbols (none if the request failed), then the interval
StartStrategyResume ==
    /\ variant = "part_000"
    /\ startPending > 0
    /\ strategyTimers < MaxTimers
    /\ \E list \in WatchlistAnswers \cup {<<>>} :
          /\ strategyState' = FreshStates(strategyState, list)
          /\ botPositions' = ZeroMissing(botPositions, list)
          /\ tradePending' = Orphan(tradePending, {list[i] : i \in 1..Len(list)})
    /\ startPending' = startPending - 1
    /\ strategyInterval' = TRUE
    /\ strategyTimers' = strategyTimers + 1
    /\ UNCHANGED <<variant, updateTimer, strategyRunning, controlPending,
                   resetPending, tickPending>>
    /\ UNCHANGED lastCommand
    /\ UNCHANGED localsimvars
    /\ UNCHANGED chartvars
    /\ UNCHANGED p2vars
    /\ UNCHANGED localvars

\* btnReset click handler: resetAccount up to its await, stopStrategy, stopUpdates
ResetButton ==
    /\ variant = "part_000"
    /\ resetPending < MaxResets
    /\ resetPending' = resetPending + 1
    /\ strategyRunning' = FALSE
    /\ strategyInterval' = FALSE
    /\ strategyTimers' = IF strategyInterval THEN strategyTimers - 1 ELSE strategyTimers
    /\ updateTimer' = stopUpdates
    /\ UNCHANGED <<variant, strategyState, botPositions, controlPending,
                   startPending, tickPending, tradePending>>
    /\ UNCHANGED lastCommand
    /\ UNCHANGED localsimvars
    /\ UNCHANGED chartvars
    /\ UNCHANGED p2vars
    /\ UNCHANGED localvars

\* resetAccount after its awaits: the strategy state is cleared, unless the
\* POST or a reload threw
ResetAccountResume ==
    /\ variant = "part_000"
    /\ resetPending > 0
    /\ resetPending' = resetPending - 1
    /\ \E ok \in BOOLEAN :
          IF ok
          THEN /\ strategyState' = <<>>
               /\ botPositions' = EmptyMap
               /\ tradePending' = Orphan(tradePending, Symbols)
          ELSE UNCHANGED <<strategyState, botPositions, tradePending>>
    /\ UNCHANGED <<variant, updateTimer, strategyRunning, strategyInterval,
                   strategyTimers, controlPending, startPending, tickPending>>
    /\ UNCHANGED lastCommand
    /\ UNCHANGED localsimvars
    /\ UNCHANGED chartvars
    /\ UNCHANGED p2vars
    /\ UNCHANGED localvars

\* a strategy interval fires: the callback up to the await of fetchPrices
StrategyTick ==
    /\ variant = "part_000"
    /\ strategyTimers > 0
    /\ strategyState # <<>>
    /\ BagSize(tickPending) < MaxTicks
    /\ tickPending' = BagAdd(tickPending, Keys(strategyState))
    /\ UNCHANGED <<variant, updateTimer, strategyRunning, strategyInterval,
                   strategyTimers, strategyState, botPositions, controlPending,
                   startPending, resetPending, tradePending>>
    /\ UNCHANGED lastCommand
    /\ UNCHANGED localsimvars
    /\ UNCHANGED chartvars
    /\ UNCHANGED p2vars
    /\ UNCHANGED localvars

\* the body of symbols.forEach for the symbols from the i-th on: the state
\* and the orders issued; a symbol without state object throws and ends the
\* callback
RECURSIVE ForEach(_, _, _, _, _, _, _)
ForEach(symbols, i, np, cash, ss, bp, orders) ==
    IF i > Len(symbols) \/ ~HasKey(ss, symbols[i])
    THEN [ss |-> ss, orders |-> orders]
    ELSE LET sym == symbols[i]
             k == IndexOf(ss, sym)
             price == np[sym]
             pushed == Append(ss[k].history, price)
             history == IF Len(pushed) > LongWindow THEN Tail(pushed) ELSE pushed
             shortMA == MovingAverage(history, ShortWindow)
             longMA == MovingAverage(history, LongWindow)
             buyQty == RDiv(RMul(RInt(cash), <<1, 10>>), RInt(price))
             sellQty == botQty(bp, sym)
             order == IF ~ss[k].isLong /\ RLess(longMA, shortMA)
                      THEN IF RLess(RZero, buyQty)
                           THEN <<[symbol |-> sym, side |-> "BUY", qty |-> buyQty,
                                   stale |-> FALSE]>>
                           ELSE <<>>
                      ELSE IF ss[k].isLong /\ RLess(shortMA, longMA) /\ RLess(RZero, sellQty)
                      THEN <<[symbol |-> sym, side |-> "SELL", qty |-> sellQty,
                              stale |-> FALSE]>>
                      ELSE <<>>
         IN  IF Falsy(price)
             THEN ForEach(symbols, i + 1, np, cash, ss, bp, orders)
             ELSE IF Len(history) >= LongWindow
             THEN ForEach(symbols, i + 1, np, cash,
                          [ss EXCEPT ![k].history = history], bp, orders \o order)
             ELSE ForEach(symbols, i + 1, np, cash,
                          [ss EXCEPT ![k].history = history], bp, orders)

RECURSIVE BagAddAll(_, _)
BagAddAll(b, q) == IF q = <<>> THEN b ELSE BagAddAll(BagAdd(b, Head(q)), Tail(q))

\* the callback after its awaits: prices (none if fetchPrices failed) and the
\* snapshot's cash (0 without snapshot), then the orders
StrategyTickResume ==
    /\ variant = "part_000"
    /\ \E symbols \in DOMAIN tickPending :
       \E np \in [{symbols[i] : i \in 1..Len(symbols)} -> StrategyQuotes \cup {NoPrice}] :
       \E cash \in StrategyCash :
          LET r == ForEach(symbols, 1, np, cash, strategyState, botPositions, <<>>)
          IN  /\ tickPending' = BagRemove(tickPending, symbols)
              /\ BagSize(tradePending) + Len(r.orders) <= MaxOrders
              /\ strategyState' = r.ss
              /\ tradePending' = BagAddAll(tradePending, r.orders)
    /\ UNCHANGED <<variant, updateTimer, strategyRunning, strategyInterval,
                   strategyTimers, botPositions, controlPending, startPending,
                   resetPending>>
    /\ UNCHANGED lastCommand
    /\ UNCHANGED localsimvars
    /\ UNCHANGED chartvars
    /\ UNCHANGED p2vars
    /\ UNCHANGED localvars

\* manualTradeAPI answered a strategy order: the .then callback
TradeAnswer ==
    /\ variant = "part_000"
    /\ \E o \in DOMAIN tradePending : \E ok \in BOOLEAN :
          /\ tradePending' = BagRemove(tradePending, o)
          /\ IF ok
             THEN /\ (o.side = "BUY" =>
                        ~RLess(RInt(MaxBot), RAdd(botQty(botPositions, o.symbol), o.qty)))
                  /\ strategyState' =
                        IF o.stale THEN strategyState
                        ELSE [strategyState EXCEPT
                                 ![IndexOf(strategyState, o.symbol)].isLong = (o.side = "BUY")]
                  /\ botPositions' =
                        Put(botPositions, o.symbol,
                            IF o.side = "BUY" THEN RAdd(botQty(botPositions, o.symbol), o.qty)
                            ELSE RZero)
             ELSE UNCHANGED <<strategyState, botPositions>>
    /\ UNCHANGED <<variant, updateTimer, strategyRunning, strategyInterval,
                   strategyTimers, controlPending, startPending, resetPending,
                   tickPending>>
    /\ UNCHANGED lastCommand
    /\ UNCHANGED localsimvars
    /\ UNCHANGED chartvars
    /\ UNCHANGED p2vars
    /\ UNCHANGED localvars

-----------------------------------------------------------------------------

\* every ledger as its script creates it
InitLedger ==
    /\ state = InitState
    /\ stored = InitState
    /\ prices = [s \in Symbols |-> NoPrice]
    /\ localCash = 0
    /\ localPositions = EmptyMap
    /\ localTrades = <<>>
    /\ pending = EmptyMap
    /\ simCash = RZero
    /\ simPositions = EmptyMap
    /\ simRealizedPnl = RZero
    /\ simWatchlist = EmptyMap
    /\ simTradeLog = <<>>
    /\ simReady = FALSE
    /\ simPending = 0
    /\ simFills = <<>>
    /\ simEquityHistory = <<>>
    /\ updateTimer = FALSE
    /\ strategyRunning = FALSE
    /\ strategyInterval = FALSE
    /\ strategyTimers = 0
    /\ strategyState = <<>>
    /\ botPositions = EmptyMap
    /\ controlPending = EmptyMap
    /\ startPending = 0
    /\ resetPending = 0
    /\ tickPending = EmptyMap
    /\ tradePending = EmptyMap
    /\ lastCommand = "none"

Init ==
    /\ variant \in Variants
    /\ InitLedger
    /\ localPrices = EmptyMap
    /\ equityHistory = IF variant = "part_002"
                       THEN recordEquityPoint(<<>>, state, prices) ELSE <<>>
    /\ priceHistory = <<>>
    /\ currentRange = IF variant = "part_002" THEN "LIVE" ELSE "live"
    /\ chartData = equityHistory

\* equity series of an untouched ledger (cash 0, no position: every point is
\* worth 0) left running for a while: up to MaxSeries points, oldest first
Series ==
    LET ages == UNION {[1..n -> SeriesAges] : n \in 0..MaxSeries}
        sorted == {a \in ages : \A i \in 1..(Len(a) - 1) : a[i] >= a[i + 1]}
    IN  {[i \in DOMAIN a |-> [age |-> a[i], v |-> 0]] : a \in sorted}

\* part_002 after boot: never empty, and whatever was more than a week older
\* than the newest point has left when that one was recorded
Series2 == {h \in Series : h # <<>> /\ h[1].age - h[Len(h)].age <= Week}

\* the page has been open for some time, polling prices, and nothing else done
InitSeries ==
    /\ variant \in {"part_002", "part_001", "part_000"}
    /\ InitLedger
    /\ equityHistory \in (IF variant = "part_002" THEN Series2 ELSE {<<>>})
    /\ priceHistory \in (IF variant = "part_001" THEN Series ELSE {<<>>})
    /\ localPrices = IF priceHistory # <<>> THEN [s \in SYMBOLS |-> 1] ELSE EmptyMap
    /\ currentRange = IF variant = "part_002" THEN "LIVE" ELSE "live"
    /\ chartData = IF variant = "part_002" THEN equityHistory ELSE priceHistory

NextP2 ==
    \/ TradeSubmit
    \/ AddApply
    \/ FetchPrices
    \/ RemoveSymbol
    \/ AddSymbol
    \/ ResetClick
    \/ Tick

NextP1 ==
    \/ HandleManualTrade
    \/ ManualTradeResume
    \/ HandleAddBalance
    \/ UpdatePrices
    \/ HandleReset

NextApp ==
    \/ SubmitTrade
    \/ SubmitGotPrice
    \/ SubmitPosted
    \/ LoadSnapshot
    \/ LoadWatchlist

NextSim ==
    \/ InitSimulation
    \/ SimulateStepCall
    \/ SimulateStep

Next == NextP2 \/ NextP1 \/ NextApp \/ NextSim

NextLedgers == NextP2 \/ NextP1

NextAvg == NextP2 \/ NextSim

\* part_002 with the page loaded again now and then
NextReload == NextP2 \/ Boot

\* part_000: the control buttons and the Reset button
NextControl ==
    \/ SendControl
    \/ SendControlResume
    \/ StartStrategyResume
    \/ ResetButton
    \/ ResetAccountResume

\* part_000: the control buttons and the strategy they start and stop
NextStrategy ==
    \/ SendControl
    \/ SendControlResume
    \/ StartStrategyResume
    \/ StrategyTick
    \/ StrategyTickResume
    \/ TradeAnswer

\* part_002: the watchlist handlers
NextWatchlist ==
    \/ AddSymbol
    \/ AddSymbolClick
    \/ AddSymbolResume
    \/ RemoveSymbol
    \/ ResetClick

NextEquity == NextReload \/ NextP1

NextReset == NextP2 \/ NextP1 \/ NextSim

\* the equity series: what records points, what asks the chart, and time
NextSeries ==
    \/ FetchPrices
    \/ ChipClick
    \/ Tick
    \/ UpdatePrices
    \/ HandleRangeClick
    \/ LocalTick
    \/ NextSim

InitP2 == Init /\ variant = "part_002"
InitP1 == Init /\ variant = "part_001"
InitApp == Init /\ variant = "app6"
InitSim == Init /\ variant = "part_000"
InitLedgers == Init /\ variant \in {"part_002", "part_001"}
InitAvg == Init /\ variant \in {"part_002", "part_000"}
InitReset == Init /\ variant \in {"part_002", "part_001", "part_000"}

\* every script
Spec == Init /\ [][Next]_vars
\* one script each
SpecP2 == InitP2 /\ [][NextP2]_vars
SpecP1 == InitP1 /\ [][NextP1]_vars
SpecApp == InitApp /\ [][NextApp]_vars
SpecSim == InitSim /\ [][NextSim]_vars
\* the two client-side ledgers, part_002 and part_001
SpecLedgers == InitLedgers /\ [][NextLedgers]_vars
\* the two scripts that track an average cost, part_002 and part_000
SpecAvg == InitAvg /\ [][NextAvg]_vars
\* the three scripts with a reset: part_002, part_001 and part_000
SpecReset == InitReset /\ [][NextReset]_vars
\* part_002 over several page loads, and part_001
SpecEquity == InitLedgers /\ [][NextEquity]_vars
\* part_002 over several page loads
SpecReload == InitP2 /\ [][NextReload]_vars
\* the control buttons of part_000, without and with the strategy's ticks
SpecControl == InitSim /\ [][NextControl]_vars
SpecStrategy == InitSim /\ [][NextStrategy]_vars
\* the watchlist of part_002
SpecWatchlist == InitP2 /\ [][NextWatchlist]_vars
\* the equity series of part_002, part_001 and part_000
SpecSeries == InitSeries /\ [][NextSeries]_vars

-----------------------------------------------------------------------------
(* What a step did, read off the trade histories *)

\* part_002: this step recorded a trade (trades.unshift)
Recorded == variant = "part_002" /\ Len(state'.trades) = Len(state.trades) + 1
NewTrade == Head(state'.trades)

\* part_001: this step recorded a trade (localTrades.push)
LocalRecorded == variant = "part_001" /\ Len(localTrades') = Len(localTrades) + 1
NewLocalTrade == localTrades'[Len(localTrades')]

\* app.js: this step recorded a trade (localTrades.push)
AppRecorded == variant = "app6" /\ Len(localTrades') = Len(localTrades) + 1

\* part_000: this step executed a fill
Filled == variant = "part_000" /\ Len(simFills') = Len(simFills) + 1
NewFill == simFills'[Len(simFills')]

-----------------------------------------------------------------------------
(* Claims *)

\* C1: in part_002 and in part_001 the cash balance is never negative, whatever
\* sequence of trades and deposits is applied.
C1_CashNeverNegative ==
    /\ variant = "part_002" => state.cash >= 0
    /\ variant = "part_001" => localCash >= 0

\* C2: in the app.js simulation no interleaving of submitted trades (and of the
\* other handlers that run while one is awaiting) drives localCash below zero
\* or leaves a symbol sold beyond what was held.
C2_NoOverdraw ==
    variant = "app6" =>
        /\ localCash >= 0
        /\ \A sym \in DOMAIN localPositions : localPositions[sym] >= 0

\* C3: in part_002 (state.positions) and part_001 (localPositions) every held
\* symbol has a quantity strictly greater than zero; a SELL down to zero has
\* deleted the key.
C3_PositionsPositive ==
    /\ variant = "part_002" => \A sym \in DOMAIN state.positions : state.positions[sym] > 0
    /\ variant = "part_001" => \A sym \in DOMAIN localPositions : localPositions[sym] > 0

\* a bought position was sold down to zero and its key is gone
C3_Witness ==
    /\ variant = "part_002"
    /\ Len(state.trades) = 2
    /\ state.trades[2].side = "BUY"
    /\ state.trades[1].side = "SELL"
    /\ state.trades[1].symbol = state.trades[2].symbol
    /\ state.trades[1].qty = state.trades[2].qty
    /\ state.trades[1].symbol \notin DOMAIN state.positions

\* C4: in the app.js simulation localPositions never holds a symbol whose
\* quantity is 0.
C4_NoZeroPosition ==
    variant = "app6" => \A sym \in DOMAIN localPositions : localPositions[sym] # 0

\* C5: a BUY of quantity q at price p sets the held quantity to old + q and the
\* average cost to (oldQty * oldAvg + q * p) / (oldQty + q); the first BUY of a
\* symbol sets the average cost to p. Both in part_002 (executeTrade) and in
\* part_000 (simulateStep).
C5_WeightedAverage ==
    [][ /\ (Recorded /\ NewTrade.side = "BUY") =>
              LET s == NewTrade.symbol
                  q == NewTrade.qty
                  p == NewTrade.price
              IN  /\ s \in DOMAIN state'.positions
                  /\ s \in DOMAIN state'.positionsMeta
                  /\ IF s \in DOMAIN state.positions
                     THEN /\ state'.positions[s] = state.positions[s] + q
                          /\ RMul(state'.positionsMeta[s], RInt(state.positions[s] + q))
                                = RAdd(RMul(RInt(state.positions[s]), state.positionsMeta[s]),
                                       RInt(q * p))
                     ELSE /\ state'.positions[s] = q
                          /\ state'.positionsMeta[s] = RInt(p)
        /\ (Filled /\ NewFill.side = "BUY") =>
              LET s == NewFill.symbol
                  q == NewFill.qty
                  p == RInt(NewFill.price)
              IN  /\ s \in DOMAIN simPositions'
                  /\ IF s \in DOMAIN simPositions
                     THEN /\ simPositions'[s].qty = RAdd(simPositions[s].qty, q)
                          /\ RMul(simPositions'[s].avgCost, RAdd(simPositions[s].qty, q))
                                = RAdd(RMul(simPositions[s].qty, simPositions[s].avgCost),
                                       RMul(q, p))
                     ELSE /\ simPositions'[s].qty = q
                          /\ simPositions'[s].avgCost = p
      ]_vars

\* two BUYs of a fresh symbol, 1 at price 1 then 1 at price 2: average cost 3/2
C5_Witness ==
    /\ variant = "part_002"
    /\ Len(state.trades) = 2
    /\ state.trades[2] = [symbol |-> "BTC/USD", side |-> "BUY", qty |-> 1, price |-> 1,
                          total |-> 1]
    /\ state.trades[1] = [symbol |-> "BTC/USD", side |-> "BUY", qty |-> 1, price |-> 2,
                          total |-> 2]
    /\ holding(state, "BTC/USD") = 2
    /\ HasAvg(state, "BTC/USD")
    /\ avgCost(state, "BTC/USD") = <<3, 2>>

\* part_002: an average cost that was there before the step and is there after
\* it differs only when the step is a BUY of that symbol
AvgChangesOnlyOnBuy ==
    \A s \in Symbols :
        (/\ s \in DOMAIN state.positionsMeta
         /\ s \in DOMAIN state'.positionsMeta
         /\ state'.positionsMeta[s] # state.positionsMeta[s])
        => (Recorded /\ NewTrade.side = "BUY" /\ NewTrade.symbol = s)

\* part_002: this step recorded a SELL of less than the held quantity
PartialSell == Recorded /\ NewTrade.side = "SELL"
               /\ NewTrade.qty < holding(state, NewTrade.symbol)

\* C6 as stated: in part_002 a SELL of less than the held quantity reduces the
\* quantity by the sold amount and leaves the symbol's average cost unchanged;
\* the average cost changes only on BUY.
C6_PartialSellKeepsAvg ==
    [][ /\ PartialSell =>
              LET s == NewTrade.symbol
              IN  /\ s \in DOMAIN state'.positions
                  /\ state'.positions[s] = state.positions[s] - NewTrade.qty
                  /\ s \in DOMAIN state'.positionsMeta
                  /\ state'.positionsMeta[s] = state.positionsMeta[s]
        /\ AvgChangesOnlyOnBuy
      ]_vars

\* C6 amended: in part_002 a SELL of less than the held quantity that leaves
\* more than 1e-12 reduces the quantity by the sold amount and leaves the
\* average cost unchanged; one that leaves 1e-12 or less deletes the position
\* and its average cost. An average cost that stays changes only on BUY.
C6_PartialSellAboveEpsilon ==
    [][ /\ PartialSell =>
              LET s == NewTrade.symbol
                  left == state.positions[s] - NewTrade.qty
              IN  IF left > EpsQty
                  THEN /\ s \in DOMAIN state'.positions
                       /\ state'.positions[s] = left
                       /\ s \in DOMAIN state'.positionsMeta
                       /\ state'.positionsMeta[s] = state.positionsMeta[s]
                  ELSE /\ s \notin DOMAIN state'.positions
                       /\ s \notin DOMAIN state'.positionsMeta
        /\ AvgChangesOnlyOnBuy
      ]_vars

\* 3 bought, then 1 sold at another price: 2 left at the purchase price
C6_Witness ==
    /\ variant = "part_002"
    /\ Len(state.trades) = 2
    /\ state.trades[2].side = "BUY"
    /\ state.trades[2].qty = 3
    /\ state.trades[1].side = "SELL"
    /\ state.trades[1].qty = 1
    /\ state.trades[1].symbol = state.trades[2].symbol
    /\ state.trades[1].price # state.trades[2].price
    /\ holding(state, state.trades[1].symbol) = 2
    /\ HasAvg(state, state.trades[1].symbol)
    /\ avgCost(state, state.trades[1].symbol) = RInt(state.trades[2].price)

\* C7: in part_002 selling the whole held quantity removes the symbol from
\* positions and from positionsMeta, and the first BUY of a symbol that has no
\* position sets its average cost to the fill price.
C7_FullSellRemovesBoth ==
    [][ /\ (/\ Recorded
            /\ NewTrade.side = "SELL"
            /\ NewTrade.qty = holding(state, NewTrade.symbol))
           => /\ NewTrade.symbol \notin DOMAIN state'.positions
              /\ NewTrade.symbol \notin DOMAIN state'.positionsMeta
        /\ (/\ Recorded
            /\ NewTrade.side = "BUY"
            /\ NewTrade.symbol \notin DOMAIN state.positions)
           => /\ NewTrade.symbol \in DOMAIN state'.positionsMeta
              /\ state'.positionsMeta[NewTrade.symbol] = RInt(NewTrade.price)
      ]_vars

\* 2 bought and 2 sold: both entries are gone
C7_Witness ==
    /\ variant = "part_002"
    /\ Len(state.trades) = 2
    /\ state.trades[2].side = "BUY"
    /\ state.trades[2].qty = 2
    /\ state.trades[1].side = "SELL"
    /\ state.trades[1].qty = 2
    /\ state.trades[1].symbol = state.trades[2].symbol
    /\ state.trades[1].symbol \notin DOMAIN state.positions
    /\ state.trades[1].symbol \notin DOMAIN state.positionsMeta

\* C8: in part_002 every SELL is recorded with total = qty * price and
\* pnl = (price - average cost before the sale) * qty; every BUY is recorded
\* with total = qty * price and without a pnl field.
C8_TradeRecordFields ==
    [][ Recorded =>
           LET t == NewTrade
               s == t.symbol
           IN  /\ t.total = t.qty * t.price
               /\ t.side = "BUY" => "pnl" \notin DOMAIN t
               /\ t.side = "SELL" =>
                     /\ "pnl" \in DOMAIN t
                     /\ s \in DOMAIN state.positionsMeta =>
                           RMul(t.pnl, RInt(state.positionsMeta[s][2]))
                              = RInt((t.price * state.positionsMeta[s][2]
                                      - state.positionsMeta[s][1]) * t.qty)
      ]_vars

\* 2 bought at 1 and sold at 2: the SELL is recorded with total 4 and pnl 2
C8_Witness ==
    /\ variant = "part_002"
    /\ Len(state.trades) = 2
    /\ state.trades[2].side = "BUY"
    /\ "pnl" \notin DOMAIN state.trades[2]
    /\ state.trades[2].qty = 2
    /\ state.trades[2].price = 1
    /\ state.trades[1].side = "SELL"
    /\ state.trades[1].symbol = state.trades[2].symbol
    /\ state.trades[1].total = 4
    /\ state.trades[1].pnl = <<2, 1>>

\* the sum over the SELL fills of qty * (price - average cost at the sale)
RECURSIVE SumSellPnl(_)
SumSellPnl(fills) ==
    IF fills = <<>> THEN RZero
    ELSE LET f == fills[Len(fills)]
             rest == SumSellPnl(SubSeq(fills, 1, Len(fills) - 1))
         IN  IF f.side = "SELL"
             THEN RAdd(rest, Rat(f.qty[1] * (f.price * f.avgCost[2] - f.avgCost[1]),
                                 f.qty[2] * f.avgCost[2]))
             ELSE rest

\* C9: in part_000 simRealizedPnl is the sum, over the SELL fills executed
\* since the last initSimulation, of qty * (price - average cost at the sale);
\* BUY fills and steps without a trade add nothing.
C9_RealizedPnlIsSum ==
    variant = "part_000" => simRealizedPnl = SumSellPnl(simFills)

\* a position was sold at a price other than its average cost
C9_Witness ==
    /\ variant = "part_000"
    /\ Len(simFills) >= 2
    /\ simFills[Len(simFills)].side = "SELL"
    /\ simRealizedPnl # RZero

\* C10: in part_002 and part_001 a BUY whose notional exceeds cash and a SELL
\* whose quantity exceeds the held quantity change nothing: an order changes
\* the ledger only by executing, and it then records its trade, so every BUY
\* that is recorded costs no more than the cash before it and every SELL that
\* is recorded sells no more than was held.
C10_RejectedOrderChangesNothing ==
    [][ /\ Recorded =>
              /\ NewTrade.side = "BUY" => NewTrade.total <= state.cash
              /\ NewTrade.side = "SELL" => NewTrade.qty <= holding(state, NewTrade.symbol)
        /\ LocalRecorded =>
              /\ NewLocalTrade.side = "BUY" => NewLocalTrade.total <= localCash
              /\ NewLocalTrade.side = "SELL" =>
                    NewLocalTrade.qty <= localHeld(localPositions, NewLocalTrade.symbol)
      ]_vars

\* C11: in part_002 every order turned down for insufficient cash or for
\* insufficient holdings is told both the amount the order needs and the
\* amount available.
C11_RejectionNamesNeedAndHave ==
    variant = "part_002" =>
        \A sym \in Symbols, side \in Sides, qty \in Quantities :
            LET r == executeTrade(state, prices, sym, side, qty)
            IN  (/\ qty > 0
                 /\ ~r.ok
                 /\ r.reason.kind \in {"Not enough cash", "Not enough holdings"})
                => {"need", "have"} \subseteq DOMAIN r.reason

\* C12: in part_002, part_001 and app.js a trade on a symbol without a usable
\* price changes nothing: no trade is ever recorded at a missing, zero or
\* non-numeric price.
C12_NoTradeWithoutPrice ==
    [][ /\ Recorded => NewTrade.price > 0
        /\ LocalRecorded => NewLocalTrade.price > 0
        /\ AppRecorded => NewLocalTrade.price > 0
      ]_vars

\* part_002: the step looks like a reset, a deposit, or one order executing
P2Reset == state'.trades = <<>> /\ state'.cash = 0 /\ state'.positions = EmptyMap
P2Deposit == /\ state'.trades = state.trades
             /\ state'.positions = state.positions
             /\ state'.cash > state.cash
P2OneRecord == /\ Recorded
               /\ Tail(state'.trades) = state.trades
               /\ state'.cash = IF NewTrade.side = "BUY" THEN state.cash - NewTrade.total
                                ELSE state.cash + NewTrade.total
P2Removal == /\ state'.trades = state.trades
             /\ state'.cash = state.cash
             /\ \E sym \in DOMAIN state.positions :
                   /\ ~Includes(state'.symbols, sym)
                   /\ state'.positions = Del(state.positions, sym)

\* part_001: the same
P1Reset == localTrades' = <<>> /\ localCash' = 0 /\ localPositions' = EmptyMap
P1Deposit == /\ localTrades' = localTrades
             /\ localPositions' = localPositions
             /\ localCash' > localCash
P1OneRecord == /\ LocalRecorded
               /\ SubSeq(localTrades', 1, Len(localTrades)) = localTrades
               /\ localCash' = IF NewLocalTrade.side = "BUY"
                               THEN localCash - NewLocalTrade.total
                               ELSE localCash + NewLocalTrade.total

\* C13: in part_002 and part_001 the trade history is append-only between
\* resets: a step either leaves it alone, resets it, or adds exactly one record
\* at the recent end (the head in part_002, the tail in part_001) and keeps the
\* others as they were; and cash and positions change by an order only together
\* with that one record.
C13_HistoryAppendOnly ==
    [][ /\ variant = "part_002" =>
              /\ state'.trades = state.trades \/ P2Reset \/ P2OneRecord
              /\ (state'.cash # state.cash \/ state'.positions # state.positions)
                    => (P2Reset \/ P2Deposit \/ P2OneRecord \/ P2Removal)
        /\ variant = "part_001" =>
              /\ localTrades' = localTrades \/ P1Reset \/ P1OneRecord
              /\ (localCash' # localCash \/ localPositions' # localPositions)
                    => (P1Reset \/ P1Deposit \/ P1OneRecord)
      ]_vars

\* BTC/USD bought, then ETH/USD: the later order is at the head of state.trades
C13_Witness ==
    /\ variant = "part_002"
    /\ Len(state.trades) = 2
    /\ state.trades[2].symbol = "BTC/USD"
    /\ state.trades[2].side = "BUY"
    /\ state.trades[1].symbol = "ETH/USD"
    /\ state.trades[1].side = "BUY"
    /\ DOMAIN state.positions = {"BTC/USD", "ETH/USD"}

\* C14: a deposit (part_002 addApply, part_001 handleAddBalance) raises cash by
\* a positive finite amount and leaves positions and trades alone; cash never
\* moves by a deposit that is not finite.
C14_DepositIsFinite ==
    [][ /\ (variant = "part_002" /\ P2Deposit)
              => state'.cash - state.cash \in 1..MaxCash
        /\ (variant = "part_001" /\ P1Deposit)
              => localCash' - localCash \in 1..MaxCash
      ]_vars

\* C15: in part_002 the snapshot values an open position whose latest price is
\* unknown at quantity times its average cost.
C15_UnknownPriceValuedAtCost ==
    variant = "part_002" =>
        \A sym \in DOMAIN state.positions :
            (getPrice(prices, sym) = NoPrice /\ HasAvg(state, sym))
                => RInt(positionValue(state.positions, prices, sym))
                      = RMul(RInt(state.positions[sym]), avgCost(state, sym))

\* cash plus, for every open position, quantity times latest known price; a
\* position whose price is unknown adds nothing
RECURSIVE KnownValue(_, _, _)
KnownValue(positions, priceOf, syms) ==
    IF syms = {} THEN 0
    ELSE LET sym == CHOOSE x \in syms : TRUE
             known == sym \in DOMAIN priceOf /\ priceOf[sym] # NoPrice
         IN  (IF known THEN positions[sym] * priceOf[sym] ELSE 0)
             + KnownValue(positions, priceOf, syms \ {sym})
EquityOf(cash, positions, priceOf) ==
    IF cash = Infinity THEN Infinity
    ELSE cash + KnownValue(positions, priceOf, DOMAIN positions)

\* this step recorded an equity point (part_002, part_001)
Last(h) == h[Len(h)]
P2Point == /\ variant = "part_002"
           /\ equityHistory' # equityHistory
           /\ equityHistory' # <<>>
           /\ Last(equityHistory').age = 0
P1Point == /\ variant = "part_001"
           /\ priceHistory' # priceHistory
           /\ priceHistory' # <<>>
           /\ Last(priceHistory').age = 0

\* C16: every equity point that part_002 recordEquityPoint and part_001
\* pushEquityPoint record is worth the cash plus, over the open positions,
\* quantity times latest known price, a position without a price adding 0.
C16_PointIsEquity ==
    [][ /\ P2Point => Last(equityHistory').v
                         = EquityOf(state'.cash, state'.positions, prices')
        /\ P1Point => Last(priceHistory').v
                         = EquityOf(localCash', localPositions', localPrices')
      ]_vars

\* part_002 loaded again with BTC/USD held and ETH/USD bought at 1 since: the
\* last point counts ETH/USD at its price and BTC/USD, still without one, at 0
C16_Witness ==
    /\ variant = "part_002"
    /\ DOMAIN state.positions = {"BTC/USD", "ETH/USD"}
    /\ getPrice(prices, "BTC/USD") = NoPrice
    /\ getPrice(prices, "ETH/USD") = 1
    /\ state.positions["ETH/USD"] = 2
    /\ equityHistory # <<>>
    /\ Last(equityHistory).age = 0
    /\ Last(equityHistory).v = state.cash + 2

\* C17: a reset (part_002 reset click, part_001 handleReset, part_000
\* initSimulation) leaves no position and no trade and sets cash to the initial
\* cash, 0 in part_002 and part_001 and the configured balance in part_000; the
\* snapshot taken right after it shows cash = equity = initial cash, positions
\* value 0 and unrealized P&L 0.
C17_ResetRestoresInitialLedger ==
    [][ /\ ResetClick =>
              /\ state'.cash = 0
              /\ state'.positions = EmptyMap
              /\ state'.positionsMeta = EmptyMap
              /\ state'.trades = <<>>
              /\ computePositionsValue(state', prices') = 0
              /\ Plus(state'.cash, computePositionsValue(state', prices')) = 0
              /\ equityHistory' = <<[age |-> 0, v |-> 0]>>
        /\ HandleReset =>
              /\ localCash' = 0
              /\ localPositions' = EmptyMap
              /\ localTrades' = <<>>
              /\ localPositionsValue(localPositions', localPrices') = 0
              /\ Plus(localCash', localPositionsValue(localPositions', localPrices')) = 0
        /\ InitSimulation =>
              /\ \E initialBalance \in Balances : simCash' = RInt(initialBalance)
              /\ simPositions' = EmptyMap
              /\ simTradeLog' = <<>>
              /\ simFills' = <<>>
              /\ simPositionsValue(simPositions', simWatchlist', DOMAIN simPositions') = RZero
              /\ simUnrealizedPnl(simPositions', simWatchlist', DOMAIN simPositions') = RZero
              /\ simEquityHistory' = <<simCash'>>
      ]_vars

\* part_000 right after initSimulation, before any simulateStep has finished:
\* the series holds the one point initSimulation pushes
C17_Witness ==
    /\ variant = "part_000"
    /\ simReady
    /\ simCash = RInt(4)
    /\ simPositions = EmptyMap
    /\ simTradeLog = <<>>
    /\ simEquityHistory = <<RInt(4)>>

\* the n most recent elements of a series, in their order
KeepLast(h, n) == IF Len(h) > n THEN SubSeq(h, Len(h) - n + 1, Len(h)) ELSE h

\* the points of a series that are a week old at most, in their order
WithinWeek(h) == SelectSeq(h, LAMBDA pt : pt.age <= Week)

\* C18: the equity series are bounded and lose their oldest points first.
\* part_001 priceHistory never holds more than its cap and part_000
\* simEquityHistory never more than its own; part_002 equityHistory holds, when
\* a point has just been recorded, no point older than 7 days.  What a
\* recording keeps is exactly the most recent points, in the order recorded.
C18_SeriesBoundedFifo ==
    [][ /\ variant = "part_001" =>
              /\ Len(priceHistory') <= PriceHistoryCap
              /\ (P1Point /\ ~HandleReset) =>
                    priceHistory' = KeepLast(Append(priceHistory, Last(priceHistory')),
                                             PriceHistoryCap)
        /\ variant = "part_000" =>
              /\ Len(simEquityHistory') <= SimHistoryCap
              /\ simPending' = simPending - 1 =>
                    simEquityHistory' = KeepLast(Append(simEquityHistory,
                                                        Last(simEquityHistory')),
                                                 SimHistoryCap)
        /\ variant = "part_002" =>
              /\ (P2Point /\ ~ResetClick /\ ~Boot) =>
                    /\ \A i \in DOMAIN equityHistory' : equityHistory'[i].age <= Week
                    /\ \E n \in 1..2 :
                          equityHistory' = WithinWeek(equityHistory)
                                              \o [i \in 1..n |-> Last(equityHistory')]
              \* recordEquityPoint on any series the page can hold
              /\ \A h \in Series2 :
                    LET r == recordEquityPoint(h, state, prices)
                    IN  /\ \A i \in DOMAIN r : r[i].age <= Week
                        /\ r = Append(WithinWeek(h), Last(r))
      ]_vars

\* part_000: two fills since initSimulation, so three points pushed at least,
\* and the series holds as many as its cap
C18_Witness ==
    /\ variant = "part_000"
    /\ Len(simFills) >= 2
    /\ Len(simEquityHistory) = SimHistoryCap
    /\ simEquityHistory[1] # simEquityHistory[2]

\* the window of a named range in days; "ALL" and the live range have none
WindowDays(range) ==
    CASE range = "1D" -> 1
      [] range = "1W" -> 7
      [] range = "1M" -> 30
      [] range = "1Y" -> 365

\* the points p of a series with now - W <= p.t <= now, in their order
Within(h, range) ==
    IF range \in {"ALL", "LIVE", "live"} THEN h
    ELSE SelectSeq(h, LAMBDA pt : 0 <= pt.age /\ pt.age <= WindowDays(range))

\* C19: a range query (part_002 renderChart from the chip click, part_001
\* updateChart from handleRangeClick) hands the chart exactly the recorded
\* points p with now - W <= p.t <= now, W the window of the range, in the
\* order recorded; "ALL" and the live range give the whole series.
C19_QueryReturnsWindow ==
    [][ /\ ChipClick => chartData' = Within(equityHistory', currentRange')
        /\ HandleRangeClick => chartData' = Within(priceHistory', currentRange')
      ]_vars

\* part_002 asked for one day with a point two days old and one exactly a day
\* old: the chart has the second only
C19_Witness ==
    /\ variant = "part_002"
    /\ currentRange = "1D"
    /\ equityHistory = <<[age |-> 2, v |-> 0], [age |-> 1, v |-> 0]>>
    /\ chartData = <<[age |-> 1, v |-> 0]>>

\* C20: asking the chart for a range changes no series: the part_002 chip
\* click and part_001 handleRangeClick leave equityHistory and priceHistory as
\* they are, so that "ALL" asked again gives the same sequence.
C20_QueryLeavesSeries ==
    [][ /\ (ChipClick \/ (variant = "part_002" /\ currentRange' # currentRange)) =>
              /\ equityHistory' = equityHistory
              /\ renderChart(equityHistory', "ALL") = renderChart(equityHistory, "ALL")
        /\ (HandleRangeClick \/ (variant = "part_001" /\ currentRange' # currentRange)) =>
              /\ priceHistory' = priceHistory
              /\ updateChart(priceHistory', "ALL") = updateChart(priceHistory, "ALL")
      ]_vars

\* part_001 asked for one week with points 8 and 7 days old: the chart has the
\* second, the series still both
C20_Witness ==
    /\ variant = "part_001"
    /\ currentRange = "1W"
    /\ priceHistory = <<[age |-> 8, v |-> 0], [age |-> 7, v |-> 0]>>
    /\ chartData = <<[age |-> 7, v |-> 0]>>

\* the prices Map with sym priced at p
PricedAt(pr, sym, p) == [s \in (DOMAIN pr) \cup {sym} |-> IF s = sym THEN p ELSE pr[s]]

\* C21: in part_002 an accepted BUY or SELL executed at price p leaves the
\* equity valued at that price as it was: cash plus quantity times price over
\* the positions, the traded symbol priced at p, is the same before and after
\* the trade.
C21_TradeKeepsEquity ==
    [][ Recorded =>
           LET pr == PricedAt(prices, NewTrade.symbol, NewTrade.price)
           IN  EquityOf(state'.cash, state'.positions, pr)
                  = EquityOf(state.cash, state.positions, pr)
      ]_vars

\* C22: in part_002 cash, positions and trade history change only by a deposit,
\* an executed trade or a reset: a step that changes the positions records a
\* trade or is a reset, and a step that changes cash is one of those or a
\* deposit; watchlist changes and price refreshes leave all three alone.
C22_OnlyLedgerOperationsMutate ==
    [][ variant = "part_002" =>
           /\ state'.positions # state.positions => (Recorded \/ P2Reset)
           /\ state'.cash # state.cash => (Recorded \/ P2Reset \/ P2Deposit)
           /\ state'.trades # state.trades => (Recorded \/ P2Reset)
      ]_vars

\* the part of a record that a reload has to bring back
Ledger(st) == <<st.cash, st.positions, st.positionsMeta, st.trades>>

\* C23: in part_002 the record stored under LS_KEY holds the cash, positions,
\* average costs and trade history of the in-memory state after every handler,
\* so that a reload restores exactly them.
C23_StoredIsState ==
    variant = "part_002" => Ledger(stored) = Ledger(state)

\* how often sym stands in the watchlist
Count(s, e) == Cardinality({i \in 1..Len(s) : s[i] = e})

\* C29: in part_002 the watchlist never holds the same symbol twice, whatever
\* add clicks, lookup answers, remove clicks and resets are interleaved.
C29_WatchlistHasNoDuplicate ==
    variant = "part_002" => \A sym \in Tickers : Count(state.symbols, sym) <= 1

\* C27: in part_002 positionsMeta and positions always have the same key set:
\* a symbol has an average cost exactly when it has a position.
C27_MetaKeysArePositionKeys ==
    variant = "part_002" => DOMAIN state.positionsMeta = DOMAIN state.positions

\* C28: in part_002 a trade accepted through the trade form appends exactly
\* one equity point, taken after the update, for BUY and SELL alike, and a
\* rejected submission appends none.
C28_OnePointPerTrade ==
    [][ TradeSubmit =>
           IF Recorded
           THEN equityHistory' = recordEquityPoint(equityHistory, state', prices)
           ELSE equityHistory' = equityHistory
      ]_vars

\* C30: in app.js the backend snapshot only initialises localCash: once a
\* local manual trade has been executed, a later loadSnapshot leaves localCash
\* as the executed trades made it.
C30_SnapshotKeepsTradedCash ==
    [][ (LoadSnapshot /\ localTrades # <<>>) => localCash' = localCash ]_vars

\* strategy BUY orders for sym that are not answered yet
UnansweredBuys(tp, sym) ==
    LET S == {o \in DOMAIN tp : o.symbol = sym /\ o.side = "BUY"}
        RECURSIVE Total(_)
        Total(T) == IF T = {} THEN 0
                    ELSE LET o == CHOOSE y \in T : TRUE IN tp[o] + Total(T \ {o})
    IN  Total(S)

\* C25: the moving-average strategy of part_000 issues a BUY for a symbol
\* only while it is not long in it and no earlier BUY for it is unanswered.
C25_NoSecondBuy ==
    [][ \A sym \in Symbols :
           UnansweredBuys(tradePending', sym) > UnansweredBuys(tradePending, sym) =>
              /\ UnansweredBuys(tradePending, sym) = 0
              /\ (HasKey(strategyState, sym) =>
                     ~strategyState[IndexOf(strategyState, sym)].isLong)
      ]_vars

\* C24: in part_000, whenever strategyRunning is false no strategy interval
\* is set, however startStrategy, stopStrategy and the Reset button interleave.
C24_StoppedHasNoTimer ==
    (variant = "part_000" /\ ~strategyRunning) => strategyTimers = 0

\* C26: in part_000 the running state follows the last command: when the
\* latest control click was Pause or Kill and every control request has been
\* answered without throwing, the update timer and the strategy are stopped.
C26_LastCommandWins ==
    ( /\ variant = "part_000"
      /\ lastCommand \in {"pause", "kill"}
      /\ controlPending = EmptyMap )
    => (~updateTimer /\ ~strategyRunning)

====
